---- MODULE Spec2Model ----
(***************************************************************************)
(* Pathfinder: the Matcher (_evaluate_path and its helpers) and the        *)
(* Coordinator (search: inline and pooled strategies, deduplication,       *)
(* result cap, idle timeout, statistics), modelled from                    *)
(* src/pathfinder/search.py and src/pathfinder/utils.py.                   *)
(*                                                                         *)
(* Strings are sequences of one-character strings, so that lower(), the    *)
(* substring test and pathlib's name/stem/suffix split are computed.       *)
(***************************************************************************)
EXTENDS Integers, Sequences, FiniteSets, TLC

VARIABLES
    \* ---- arguments of search() / _evaluate_path(), fixed for one call
    tree,                \* the files iter_files can yield (file numbers)
    endless,             \* TRUE: the traversal never exhausts
    query,               \* ParsedQuery
    scan_content,
    content_only,
    ext_match_or,
    max_content_size_mb,
    limit,
    idle_timeout_sec,    \* a number of time units; 0 stands for None as well
    stream_callback,     \* TRUE when a callback is supplied
    \* ---- local state of one search() call
    pc,                  \* the coordinator's position in search()
    feed,                \* the candidates iter_files has yielded so far, in order
                         \* (not recorded when the traversal is endless)
    exhausted,           \* iter_files has ended
    p,                   \* the loop variable: the candidate in hand
    now,                 \* time.monotonic()
    start,
    results,
    stop_event,
    seen_ids,
    emitted_count,
    stopped_reason,
    idle_deadline,
    last_emit_time,
    futures,             \* the list of submitted futures
    orphans,             \* tasks dropped by futures.clear() that the pool still runs
    evaluated,           \* the files _evaluate_path has been run on
    callback_log,        \* the paths handed to stream_callback, in order
    stats,               \* the returned SearchStats
    \* ---- one _evaluate_path() call on its own
    m_path,              \* the file evaluated
    m_done,              \* the call has returned
    m_ret,               \* what it returned: [match, opened, raised]
    \* ---- one parse_query() call
    argv_terms,          \* the terms, each a string
    case_sensitive,
    parsed,              \* the call has returned, and query holds what it returned
    \* ---- one iter_files() traversal
    roots,               \* the paths argument: node numbers
    follow_symlinks,
    max_depth,           \* NoDepth stands for None
    exclude_dirs,        \* directory names
    denied,              \* the directories whose os.scandir raises
    w_pc,                \* the generator's position
    w_root,              \* how many roots the `for root in paths` loop has taken
    w_stack,             \* _walk_scandir's stack: [path, depth], top last
    w_cur,               \* the directory being listed: [path, depth]
    w_entries,           \* the entries the open scandir iterator still holds
    w_out,               \* what iter_files has yielded: [root, path], in order
    w_lists              \* how many times each node was listed (os.scandir returned)

cfgVars == <<tree, endless, query, scan_content, content_only, ext_match_or,
             max_content_size_mb, limit, idle_timeout_sec, stream_callback>>
runVars == <<pc, feed, exhausted, p, now, start, results, stop_event, seen_ids, emitted_count,
             stopped_reason, idle_deadline, last_emit_time, futures, orphans,
             evaluated, callback_log, stats>>
matchVars == <<m_path, m_done, m_ret>>
parseVars == <<argv_terms, case_sensitive, parsed>>
walkArgs == <<roots, follow_symlinks, max_depth, exclude_dirs, denied>>
walkVars == <<walkArgs, w_pc, w_root, w_stack, w_cur, w_entries, w_out, w_lists>>
otherVars == <<parseVars, walkVars>>
vars == <<cfgVars, runVars, matchVars, otherVars>>

\* Python's None, for a time and for a file number
NoTime == 0 - 1
\* max_depth None; no max_depth of the model is this number
NoDepth == 0 - 99
NoPath == 0
NoStats == [emitted |-> 0, wall_time_sec |-> 0, idle_time_sec |-> 0,
            stopped_reason |-> "None"]

-----------------------------------------------------------------------------
(* Strings *)

UpperAlpha == <<"A","B","C","D","E","F","G","H","I","J","K","L","M",
                "N","O","P","Q","R","S","T","U","V","W","X","Y","Z">>
LowerAlpha == <<"a","b","c","d","e","f","g","h","i","j","k","l","m",
                "n","o","p","q","r","s","t","u","v","w","x","y","z">>

\* str.lower() on one character
LowerChar(c) ==
    IF \E i \in 1..26 : UpperAlpha[i] = c
    THEN LowerAlpha[CHOOSE i \in 1..26 : UpperAlpha[i] = c]
    ELSE c

\* str.lower()
Lower(s) == [i \in 1..Len(s) |-> LowerChar(s[i])]

\* `t in s` for two strings
IsSubstr(t, s) ==
    \E i \in 0..(Len(s) - Len(t)) : SubSeq(s, i + 1, i + Len(t)) = t

\* `x in l` for a list l
InList(x, l) == \E i \in 1..Len(l) : l[i] = x

\* str.rfind("."), 1-based, 0 when there is no dot
LastDot(s) ==
    IF \E i \in 1..Len(s) : s[i] = "."
    THEN CHOOSE i \in 1..Len(s) : s[i] = "." /\ \A j \in (i+1)..Len(s) : s[j] # "."
    ELSE 0

\* pathlib: a name has a suffix when its last dot is neither its first nor its
\* last character
HasSuffix(name) == LastDot(name) > 1 /\ LastDot(name) < Len(name)

\* Path.suffix
PathSuffix(name) ==
    IF HasSuffix(name) THEN SubSeq(name, LastDot(name), Len(name)) ELSE <<>>

\* Path.stem
PathStem(name) ==
    IF HasSuffix(name) THEN SubSeq(name, 1, LastDot(name) - 1) ELSE name

-----------------------------------------------------------------------------
(* The file system the model searches *)

NUL == "NUL"     \* the byte 0x00
BAD == "BAD"     \* a byte that is not valid UTF-8

MB == 1024 * 1024

\* name: Path.name; dev, ino: st_dev, st_ino; size: st_size; data: the file's
\* leading bytes (all of them when size = Len(data)); io: "ok", or which call
\* raises ("stat": stat, open and read raise; "open": open and read raise)
Files == <<
    [name |-> <<"i","n","v",".","t","x","t">>, dev |-> 1, ino |-> 1,
     size |-> 1, data |-> <<"x">>, io |-> "ok"],
    \* a hard link of file 1
    [name |-> <<"I","n","v",".","m","d">>, dev |-> 1, ino |-> 1,
     size |-> 1, data |-> <<"x">>, io |-> "ok"],
    [name |-> <<"a",".","m","d">>, dev |-> 1, ino |-> 2,
     size |-> 4, data |-> <<"I","N","V",BAD>>, io |-> "ok"],
    [name |-> <<"b",".","j","p","g">>, dev |-> 1, ino |-> 3,
     size |-> 4, data |-> <<NUL,"i","n","v">>, io |-> "ok"],
    [name |-> <<"I","N","V","O","I","C","E">>, dev |-> 1, ino |-> 4,
     size |-> 0, data |-> <<>>, io |-> "ok"],
    [name |-> <<"n","o","t","e","s",".","T","X","T">>, dev |-> 1, ino |-> 5,
     size |-> 3, data |-> <<"i","n","v">>, io |-> "ok"],
    [name |-> <<"n","o","t","e","s",".","m","d">>, dev |-> 1, ino |-> 6,
     size |-> 3, data |-> <<"i","n","v">>, io |-> "open"],
    [name |-> <<"n","o","t","e","s">>, dev |-> 1, ino |-> 7,
     size |-> 3, data |-> <<"i","n","v">>, io |-> "ok"],
    [name |-> <<".","t","x","t">>, dev |-> 1, ino |-> 8,
     size |-> 3, data |-> <<"i","n","v">>, io |-> "stat"],
    [name |-> <<"b","i","g",".","t","x","t">>, dev |-> 1, ino |-> 9,
     size |-> MB + 1, data |-> <<"i","n","v">>, io |-> "ok"],
    \* a listed extension, and stat raises
    [name |-> <<"r","a","w",".","l","o","g">>, dev |-> 1, ino |-> 10,
     size |-> 3, data |-> <<"i","n","v">>, io |-> "stat"],
    \* a hard link of file 5
    [name |-> <<"o","l","d">>, dev |-> 1, ino |-> 4,
     size |-> 0, data |-> <<>>, io |-> "ok"]
>>

Paths == 1..Len(Files)

\* the extensions of utils.TEXT_EXTS
TEXT_EXTS == {
    <<".","t","x","t">>, <<".","m","d">>, <<".","r","s","t">>, <<".","l","o","g">>,
    <<".","p","y">>, <<".","j","s">>, <<".","t","s">>, <<".","t","s","x">>,
    <<".","j","s","x">>, <<".","j","s","o","n">>, <<".","y","m","l">>,
    <<".","y","a","m","l">>, <<".","i","n","i">>, <<".","c","f","g">>,
    <<".","c","o","n","f">>, <<".","h","t","m","l">>, <<".","h","t","m">>,
    <<".","c","s","s">>, <<".","x","m","l">>, <<".","c","s","v">>,
    <<".","t","s","v">>, <<".","i","p","y","n","b">>, <<".","t","e","x">>}

-----------------------------------------------------------------------------
(* The Matcher.  A call that can raise returns [raised, val, opened]:        *)
(* opened says whether the file was opened for reading.                      *)

Min(a, b) == IF a <= b THEN a ELSE b
Max(a, b) == IF a >= b THEN a ELSE b

\* bytes.decode("utf-8", errors="ignore"): invalid bytes are dropped
Decode(data) == SelectSeq(data, LAMBDA c : c # BAD)

\* is_probably_text: a listed extension answers without I/O; otherwise the
\* first 1024 bytes are read and a failure answers False
is_probably_text(path) ==
    LET ext == Lower(PathSuffix(Files[path].name))
        sample == SubSeq(Files[path].data, 1, Min(1024, Len(Files[path].data)))
    IN  IF ext \in TEXT_EXTS THEN [val |-> TRUE, opened |-> FALSE]
        ELSE IF Files[path].io # "ok" THEN [val |-> FALSE, opened |-> FALSE]
        ELSE [val |-> ~ InList(NUL, sample), opened |-> TRUE]

\* _read_text: stat, open, read min(size, max_bytes) bytes, decode
_read_text(path, max_bytes) ==
    LET to_read == Min(Files[path].size, max_bytes)
        data == SubSeq(Files[path].data, 1, Min(to_read, Len(Files[path].data)))
    IN  IF Files[path].io # "ok"
        THEN [raised |-> TRUE, val |-> <<>>, opened |-> FALSE]
        ELSE [raised |-> FALSE, val |-> Decode(data), opened |-> TRUE]

_name_matches_NoExtGate(filename, stem, ext, q) ==
    LET fn == IF q.case_sensitive THEN filename ELSE Lower(filename)
        st == IF q.case_sensitive THEN stem ELSE Lower(stem)
    IN  \/ q.exact_filenames # <<>> /\ InList(fn, q.exact_filenames)
        \/ q.exact_stems # <<>> /\ InList(st, q.exact_stems)
        \/ \E i \in 1..Len(q.tokens) :
              q.tokens[i] # <<>> /\ IsSubstr(q.tokens[i], fn)

_name_matches_ExactUngated(filename, stem, ext, q) ==
    LET fn == IF q.case_sensitive THEN filename ELSE Lower(filename)
        st == IF q.case_sensitive THEN stem ELSE Lower(stem)
        ex == IF q.case_sensitive THEN ext ELSE Lower(ext)
    IN  \/ q.exact_filenames # <<>> /\ InList(fn, q.exact_filenames)
        \/ q.exact_stems # <<>> /\ InList(st, q.exact_stems)
        \/ /\ ~ (q.and_extensions # {} /\ ex \notin q.and_extensions)
           /\ \E i \in 1..Len(q.tokens) :
                 q.tokens[i] # <<>> /\ IsSubstr(q.tokens[i], fn)

_name_matches(filename, stem, ext, q) ==
    LET fn == IF q.case_sensitive THEN filename ELSE Lower(filename)
        st == IF q.case_sensitive THEN stem ELSE Lower(stem)
        ex == IF q.case_sensitive THEN ext ELSE Lower(ext)
    IN  IF q.and_extensions # {} /\ ex \notin q.and_extensions THEN FALSE
        ELSE IF q.exact_filenames # <<>> /\ InList(fn, q.exact_filenames) THEN TRUE
        ELSE IF q.exact_stems # <<>> /\ InList(st, q.exact_stems) THEN TRUE
        ELSE \E i \in 1..Len(q.tokens) :
                q.tokens[i] # <<>> /\ IsSubstr(q.tokens[i], fn)

_content_matches(text, q) ==
    IF q.tokens = <<>> THEN FALSE
    ELSE LET hay == IF q.case_sensitive THEN text ELSE Lower(text)
         IN  \E i \in 1..Len(q.tokens) :
                q.tokens[i] # <<>> /\ IsSubstr(q.tokens[i], hay)

ContentScan_NoSizeCap(path, q, max_bytes) ==
    LET ext == Lower(PathSuffix(Files[path].name))
        ipt == is_probably_text(path)
        rd == _read_text(path, max_bytes)
    IN  IF ~ ipt.val THEN [match |-> FALSE, opened |-> ipt.opened, raised |-> FALSE]
        ELSE IF rd.raised THEN [match |-> FALSE, opened |-> ipt.opened, raised |-> FALSE]
        ELSE [match |-> /\ _content_matches(rd.val, q)
                        /\ (q.and_extensions = {} \/ ext \in q.and_extensions),
              opened |-> TRUE, raised |-> FALSE]

\* the body of the `try:` of the `if scan_content:` block of _evaluate_path:
\* [match, opened, raised]; raised says that an exception left the body
ContentTry(path, q, max_bytes) ==
    LET ext == Lower(PathSuffix(Files[path].name))
        ipt == is_probably_text(path)
        rd == _read_text(path, max_bytes)
    IN  IF ~ ipt.val
        THEN [match |-> FALSE, opened |-> ipt.opened, raised |-> FALSE]
        ELSE IF Files[path].io = "stat"
        THEN [match |-> FALSE, opened |-> ipt.opened, raised |-> TRUE]
        ELSE IF ~ (Files[path].size <= max_bytes)
        THEN [match |-> FALSE, opened |-> ipt.opened, raised |-> FALSE]
        ELSE IF rd.raised
        THEN [match |-> FALSE, opened |-> ipt.opened, raised |-> TRUE]
        ELSE [match |-> /\ _content_matches(rd.val, q)
                        /\ (q.and_extensions = {} \/ ext \in q.and_extensions),
              opened |-> TRUE, raised |-> FALSE]

ContentScan_NoExcept(path, q, max_bytes) == ContentTry(path, q, max_bytes)

\* the `if scan_content:` block of _evaluate_path: `except Exception: pass`
\* swallows what the body raises and leaves the answer "no match"
ContentScan(path, q, max_bytes) ==
    LET r == ContentTry(path, q, max_bytes)
    IN  IF r.raised
        THEN [match |-> FALSE, opened |-> r.opened, raised |-> FALSE]
        ELSE r

_evaluate_path_NoExtOr(path, q, scan, conly, max_bytes, ext_or) ==
    LET filename == Files[path].name
        stem == PathStem(filename)
        ext == Lower(PathSuffix(filename))
    IN  IF ~ conly /\ _name_matches(filename, stem, ext, q)
        THEN [match |-> TRUE, opened |-> FALSE, raised |-> FALSE]
        ELSE IF scan THEN ContentScan(path, q, max_bytes)
        ELSE [match |-> FALSE, opened |-> FALSE, raised |-> FALSE]

\* _evaluate_path: [match |-> a MatchResult is returned, opened |-> the file was
\* opened, raised |-> the call raised instead of returning]
_evaluate_path(path, q, scan, conly, max_bytes, ext_or) ==
    LET filename == Files[path].name
        stem == PathStem(filename)
        ext == Lower(PathSuffix(filename))
    IN  IF ext_or /\ q.and_extensions # {} /\ ext \in q.and_extensions
        THEN [match |-> TRUE, opened |-> FALSE, raised |-> FALSE]
        ELSE IF ~ conly /\ _name_matches(filename, stem, ext, q)
        THEN [match |-> TRUE, opened |-> FALSE, raised |-> FALSE]
        ELSE IF scan THEN ContentScan(path, q, max_bytes)
        ELSE [match |-> FALSE, opened |-> FALSE, raised |-> FALSE]

\* max_bytes = max_content_size_mb * 1024 * 1024
MaxBytes(mb) == mb * 1024 * 1024

-----------------------------------------------------------------------------
(* Queries *)

n_notes_txt == <<"n","o","t","e","s",".","t","x","t">>
n_notes_md == <<"n","o","t","e","s",".","m","d">>
n_inv_md == <<"i","n","v",".","m","d">>
n_notes == <<"n","o","t","e","s">>
n_inv == <<"i","n","v">>
n_INV == <<"I","N","V">>
n_ote == <<"o","t","e">>
e_txt == <<".","t","x","t">>
e_md == <<".","m","d">>
e_jpg == <<".","j","p","g">>

\* ParsedQuery values the Matcher is applied to
Queries ==
    [exact_filenames : {<<>>, <<n_notes_txt>>, <<n_inv_md, n_notes_md>>},
     exact_stems : {<<>>, <<n_notes>>, <<n_inv>>},
     and_extensions : {{}, {e_txt}, {e_md}, {e_jpg, e_md}},
     tokens : {<<>>, <<n_inv>>, <<n_INV, n_ote>>},
     case_sensitive : BOOLEAN]

\* the query of the model's search() calls: the fuzzy token "inv"
SearchQuery ==
    [exact_filenames |-> <<>>, exact_stems |-> <<>>, and_extensions |-> {},
     tokens |-> <<n_inv>>, case_sensitive |-> FALSE]

-----------------------------------------------------------------------------
(* The Query Model: parse_query.  A string is a sequence of characters.      *)

Digits == {"0","1","2","3","4","5","6","7","8","9"}
IsAlnum(c) ==
    \/ c \in Digits
    \/ \E i \in 1..26 : UpperAlpha[i] = c \/ LowerAlpha[i] = c

Quote == "\""
Space == " "

\* utils.TYPE_GROUPS
TYPE_GROUPS == {
    [name |-> <<"i","m","a","g","e">>,
     exts |-> {<<".","b","m","p">>, <<".","g","i","f">>,
           <<".","h","e","i","c">>, <<".","j","p","e","g">>,
           <<".","j","p","g">>, <<".","p","n","g">>, <<".","s","v","g">>,
           <<".","t","i","f">>, <<".","t","i","f","f">>,
           <<".","w","e","b","p">>}],
    [name |-> <<"v","i","d","e","o">>,
     exts |-> {<<".","a","v","i">>, <<".","m","4","v">>, <<".","m","k","v">>,
           <<".","m","o","v">>, <<".","m","p","4">>, <<".","w","e","b","m">>,
           <<".","w","m","v">>}],
    [name |-> <<"a","u","d","i","o">>,
     exts |-> {<<".","a","a","c">>, <<".","f","l","a","c">>,
           <<".","m","4","a">>, <<".","m","p","3">>, <<".","o","g","g">>,
           <<".","w","a","v">>}],
    [name |-> <<"d","o","c">>,
     exts |-> {<<".","d","o","c">>, <<".","d","o","c","x">>, <<".","m","d">>,
           <<".","p","d","f">>, <<".","r","s","t">>, <<".","r","t","f">>,
           <<".","t","x","t">>}],
    [name |-> <<"c","o","d","e">>,
     exts |-> {<<".","c">>, <<".","c","p","p">>, <<".","c","s">>,
           <<".","g","o">>, <<".","j","a","v","a">>, <<".","j","s">>,
           <<".","j","s","x">>, <<".","p","h","p">>, <<".","p","s","1">>,
           <<".","p","y">>, <<".","r","b">>, <<".","r","s">>, <<".","s","h">>,
           <<".","t","s">>, <<".","t","s","x">>}],
    [name |-> <<"a","r","c","h","i","v","e">>,
     exts |-> {<<".","7","z">>, <<".","b","z","2">>, <<".","g","z">>,
           <<".","r","a","r">>, <<".","t","a","r">>, <<".","t","g","z">>,
           <<".","z","i","p">>}],
    [name |-> <<"d","a","t","a">>,
     exts |-> {<<".","a","r","r","o","w">>, <<".","c","s","v">>,
           <<".","d","b">>, <<".","d","b","3">>, <<".","d","t","a">>,
           <<".","f","e","a","t","h","e","r">>, <<".","h","5">>,
           <<".","h","d","f","5">>, <<".","j","s","o","n">>,
           <<".","j","s","o","n","l">>, <<".","n","d","j","s","o","n">>,
           <<".","o","r","c">>, <<".","p","a","r","q","u","e","t">>,
           <<".","s","a","v">>, <<".","s","q","l","i","t","e">>,
           <<".","s","q","l","i","t","e","3">>, <<".","t","s","v">>}],
    [name |-> <<"s","h","e","e","t">>,
     exts |-> {<<".","c","s","v">>, <<".","o","d","s">>, <<".","t","s","v">>,
           <<".","x","l","s">>, <<".","x","l","s","x">>}],
    [name |-> <<"n","o","t","e","b","o","o","k">>,
     exts |-> {<<".","i","p","y","n","b">>}],
    [name |-> <<"p","d","f">>,
     exts |-> {<<".","p","d","f">>}]}

\* str.find(c, i), 1-based: the first position >= i holding c, 0 when none
FindFrom(s, c, i) ==
    IF \E j \in i..Len(s) : s[j] = c
    THEN CHOOSE j \in i..Len(s) : s[j] = c /\ \A k \in i..(j - 1) : s[k] # c
    ELSE 0

\* str.strip() (the only white space of the model is the blank)
RECURSIVE Strip(_)
Strip(s) ==
    IF s = <<>> THEN s
    ELSE IF Head(s) = Space THEN Strip(Tail(s))
    ELSE IF s[Len(s)] = Space THEN Strip(SubSeq(s, 1, Len(s) - 1))
    ELSE s

\* " ".join(argv_terms)
RECURSIVE Join(_)
Join(terms) ==
    IF terms = <<>> THEN <<>>
    ELSE IF Len(terms) = 1 THEN terms[1]
    ELSE terms[1] \o <<Space>> \o Join(Tail(terms))

\* the matches of QUOTED_RE = "([^"]+)" in s from position i on, left to
\* right and non-overlapping: <<a, b>> are the positions of the two quotes
RECURSIVE QuotedSpans(_, _)
QuotedSpans(s, i) ==
    LET a == FindFrom(s, Quote, i)
        b == FindFrom(s, Quote, a + 1)
    IN  IF a = 0 \/ b = 0 THEN <<>>
        ELSE IF b = a + 1 THEN QuotedSpans(s, b)
        ELSE <<<<a, b>>>> \o QuotedSpans(s, b + 1)

\* QUOTED_RE.findall(s): the groups
QuotedFindall(s) ==
    LET spans == QuotedSpans(s, 1)
    IN  [k \in 1..Len(spans) |-> SubSeq(s, spans[k][1] + 1, spans[k][2] - 1)]

\* QUOTED_RE.sub(" ", s): what is left of s from position `from` on with the
\* spans from the k-th on replaced by a blank
RECURSIVE QuotedSubFrom(_, _, _, _)
QuotedSubFrom(s, spans, k, from) ==
    IF k > Len(spans) THEN SubSeq(s, from, Len(s))
    ELSE SubSeq(s, from, spans[k][1] - 1) \o <<Space>>
            \o QuotedSubFrom(s, spans, k + 1, spans[k][2] + 1)

QuotedSub(s) == QuotedSubFrom(s, QuotedSpans(s, 1), 1, 1)

\* [t for t in re.split(r"\s+", s.strip()) if t]
RECURSIVE SplitWs(_)
SplitWs(s) ==
    IF s = <<>> THEN <<>>
    ELSE IF Head(s) = Space THEN SplitWs(Tail(s))
    ELSE LET e == FindFrom(s, Space, 1)
         IN  IF e = 0 THEN <<s>>
             ELSE <<SubSeq(s, 1, e - 1)>> \o SplitWs(SubSeq(s, e + 1, Len(s)))

\* EXT_RE = ^ext:(\.[A-Za-z0-9]+)$, IGNORECASE: [hit, group]
EXT_RE_match(s) ==
    IF /\ Len(s) >= 6
       /\ Lower(SubSeq(s, 1, 4)) = <<"e","x","t",":">>
       /\ s[5] = "."
       /\ \A i \in 6..Len(s) : IsAlnum(s[i])
    THEN [hit |-> TRUE, group |-> SubSeq(s, 5, Len(s))]
    ELSE [hit |-> FALSE, group |-> <<>>]

\* TYPE_RE = ^type:([A-Za-z0-9_]+)$, IGNORECASE: [hit, group]
TYPE_RE_match(s) ==
    IF /\ Len(s) >= 6
       /\ Lower(SubSeq(s, 1, 5)) = <<"t","y","p","e",":">>
       /\ \A i \in 6..Len(s) : IsAlnum(s[i]) \/ s[i] = "_"
    THEN [hit |-> TRUE, group |-> SubSeq(s, 6, Len(s))]
    ELSE [hit |-> FALSE, group |-> <<>>]

_norm(s, cs) == IF cs THEN s ELSE Lower(s)

_normalize_ext(e) ==
    LET l == Lower(Strip(e))
    IN  IF l # <<>> /\ l[1] = "." THEN l ELSE <<".">> \o l

_expand_type_to_exts(type_name) ==
    IF \E g \in TYPE_GROUPS : g.name = Lower(type_name)
    THEN (CHOOSE g \in TYPE_GROUPS : g.name = Lower(type_name)).exts
    ELSE {}

\* s.split(c)[-1]
AfterLast(s, c) ==
    IF \E i \in 1..Len(s) : s[i] = c
    THEN SubSeq(s, 1 + (CHOOSE i \in 1..Len(s) :
                           s[i] = c /\ \A j \in (i + 1)..Len(s) : s[j] # c),
                Len(s))
    ELSE s

\* dedup: the first occurrences, in order
RECURSIVE dedup(_)
dedup(seq) ==
    IF seq = <<>> THEN <<>>
    ELSE LET front == dedup(SubSeq(seq, 1, Len(seq) - 1))
             x == seq[Len(seq)]
         IN  IF InList(x, front) THEN front ELSE Append(front, x)

\* the lists parse_query builds, before any item is taken
NoItems == [exact_filenames |-> <<>>, exact_stems |-> <<>>,
            and_extensions |-> {}, tokens |-> <<>>]

\* one turn of `for raw in quoted:` (lines 52-74) on the lists acc
QuotedItem(acc, raw, cs) ==
    LET s == Strip(raw)
        n == _norm(s, cs)
        m_e == IF EXT_RE_match(s).hit THEN EXT_RE_match(s) ELSE EXT_RE_match(n)
        m_t == IF TYPE_RE_match(s).hit THEN TYPE_RE_match(s) ELSE TYPE_RE_match(n)
    IN  IF m_e.hit
        THEN [acc EXCEPT !.and_extensions = @ \cup {_normalize_ext(m_e.group)}]
        ELSE IF m_t.hit
        THEN [acc EXCEPT !.and_extensions =
                 @ \cup {_normalize_ext(e) : e \in _expand_type_to_exts(m_t.group)}]
        ELSE IF InList("/", s) \/ InList("\\", s)
        THEN [acc EXCEPT !.exact_filenames =
                 Append(@, _norm(AfterLast(AfterLast(s, "/"), "\\"), cs))]
        ELSE IF InList(".", s) /\ ~ (s # <<>> /\ s[1] = ".")
        THEN [acc EXCEPT !.exact_filenames = Append(@, _norm(s, cs))]
        ELSE [acc EXCEPT !.exact_stems = Append(@, _norm(s, cs))]

\* one turn of `for raw in unquoted:` (lines 77-91)
UnquotedItem(acc, raw, cs) ==
    LET s == Strip(raw)
        n == _norm(s, cs)
        m_e == IF EXT_RE_match(s).hit THEN EXT_RE_match(s) ELSE EXT_RE_match(n)
        m_t == IF TYPE_RE_match(s).hit THEN TYPE_RE_match(s) ELSE TYPE_RE_match(n)
    IN  IF m_e.hit
        THEN [acc EXCEPT !.and_extensions = @ \cup {_normalize_ext(m_e.group)}]
        ELSE IF m_t.hit
        THEN [acc EXCEPT !.and_extensions =
                 @ \cup {_normalize_ext(e) : e \in _expand_type_to_exts(m_t.group)}]
        ELSE [acc EXCEPT !.tokens = Append(@, n)]

RECURSIVE QuotedLoop(_, _, _)
QuotedLoop(acc, items, cs) ==
    IF items = <<>> THEN acc
    ELSE QuotedLoop(QuotedItem(acc, Head(items), cs), Tail(items), cs)

RECURSIVE UnquotedLoop(_, _, _)
UnquotedLoop(acc, items, cs) ==
    IF items = <<>> THEN acc
    ELSE UnquotedLoop(UnquotedItem(acc, Head(items), cs), Tail(items), cs)

\* parse_query; and_extensions, a sorted list in the code, is kept as the set of
\* its elements
parse_query(terms, cs) ==
    LET joined == Join(terms)
        quoted == QuotedFindall(joined)
        unquoted == SplitWs(Strip(QuotedSub(joined)))
        acc == UnquotedLoop(QuotedLoop(NoItems, quoted, cs), unquoted, cs)
    IN  [exact_filenames |-> dedup(acc.exact_filenames),
         exact_stems |-> dedup(acc.exact_stems),
         and_extensions |-> acc.and_extensions,
         tokens |-> dedup(acc.tokens),
         case_sensitive |-> cs]

\* the terms of the model's command lines
t_ext_dot == <<"e","x","t",":",".","J","P","G">>
t_ext_nodot == <<"e","x","t",":","m","d">>
t_q_ext_dot == <<"\"","E","X","T",":",".","M","d","\"">>
t_q_ext_nodot == <<"\"","e","x","t",":","t","x","t","\"">>
t_q_dotext == <<"\"",".","t","x","t","\"">>
t_q_dot_a_b == <<"\"",".","a",".","b","\"">>
t_q_filename == <<"\"","N","o","t","e","s",".","T","X","T","\"">>
t_q_stem == <<"\"","n","o","t","e","s","\"">>
t_q_path == <<"\"","a","/","B",".","c","\"">>
t_q_backslash == <<"\"","a","\\","b","\"">>
t_inv == <<"i","n","v">>
t_Inv == <<"I","n","v">>
t_type == <<"t","y","p","e",":","D","o","c">>
t_q_type_unknown == <<"\"","t","y","p","e",":","n","o","p","e","\"">>
t_q_two_words == <<"\"","t","w","o"," ","w","o","r","d","s","\"">>
t_dotext == <<".","t","x","t">>

Terms == {t_ext_dot, t_ext_nodot, t_q_ext_dot, t_q_ext_nodot, t_q_dotext,
          t_q_dot_a_b, t_q_filename, t_q_stem, t_q_path,
          t_q_backslash, t_inv, t_Inv, t_type, t_q_type_unknown,
          t_q_two_words, t_dotext}

\* the longest command line, in terms
MaxTerms == 2

\* no parse_query call
NoParse == argv_terms = <<>> /\ case_sensitive = FALSE /\ parsed = FALSE

-----------------------------------------------------------------------------
(* The Traversal: iter_files and _walk_scandir.  A path is the sequence of   *)
(* the nodes from a root down to an entry.                                   *)

\* name: entry.name; kind: a directory, a regular file, a symbolic link, or
\* "absent" for a path that does not exist; parent: the directory holding the
\* entry (0: none); target: the node a symbolic link points to
Nodes == <<
    [name |-> "top", kind |-> "dir", parent |-> 0, target |-> 0],
    [name |-> "a.txt", kind |-> "file", parent |-> 1, target |-> 0],
    [name |-> "sub", kind |-> "dir", parent |-> 1, target |-> 0],
    [name |-> "b.txt", kind |-> "file", parent |-> 3, target |-> 0],
    [name |-> "skip", kind |-> "dir", parent |-> 3, target |-> 0],
    [name |-> "c.txt", kind |-> "file", parent |-> 5, target |-> 0],
    \* a link to the directory "skip"
    [name |-> "lnk", kind |-> "symlink", parent |-> 1, target |-> 5],
    \* a link to the file "a.txt"
    [name |-> "fl", kind |-> "symlink", parent |-> 3, target |-> 2],
    [name |-> "gone", kind |-> "absent", parent |-> 0, target |-> 0],
    \* a link in "sub" to its parent "top"
    [name |-> "up", kind |-> "symlink", parent |-> 3, target |-> 1]
>>

Last(path) == path[Len(path)]

\* the node a path leads to, symbolic links followed
Resolved(n) == IF Nodes[n].kind = "symlink" THEN Nodes[n].target ELSE n

Children(d) == {c \in 1..Len(Nodes) : Nodes[c].parent = d}

\* Path.exists()
Exists(n) == Nodes[Resolved(n)].kind # "absent"

\* os.scandir(path): [raised, entries]; it raises for what is not a directory
\* and for a directory that cannot be listed
ScanDir(path) ==
    LET d == Resolved(Last(path))
    IN  IF Nodes[d].kind # "dir" \/ d \in denied
        THEN [raised |-> TRUE, entries |-> {}]
        ELSE [raised |-> FALSE, entries |-> Children(d)]

\* entry.is_dir(follow_symlinks=follow), entry.is_file(follow_symlinks=follow),
\* entry.is_symlink()
IsDir(e, follow) ==
    \/ Nodes[e].kind = "dir"
    \/ follow /\ Nodes[e].kind = "symlink" /\ Nodes[Nodes[e].target].kind = "dir"
IsFile(e, follow) ==
    \/ Nodes[e].kind = "file"
    \/ follow /\ Nodes[e].kind = "symlink" /\ Nodes[Nodes[e].target].kind = "file"
IsSymlink(e) == Nodes[e].kind = "symlink"

\* the symbolic links the system follows in resolving one path before it fails
\* with ELOOP: 40 on Linux, scaled down here
MaxSymlinks == 1

\* the symbolic links on a path
LinkCount(path) == Cardinality({i \in 1..Len(path) : IsSymlink(path[i])})

\* entry.is_dir(follow_symlinks=True) on a symbolic link stats the link's
\* target, and raises OSError when resolving the entry's path takes more than
\* MaxSymlinks links
EntryRaises(path, e) ==
    follow_symlinks /\ IsSymlink(e) /\ LinkCount(Append(path, e)) > MaxSymlinks

\* no iter_files call
NoWalk ==
    /\ roots = <<>> /\ follow_symlinks = FALSE /\ max_depth = NoDepth
    /\ exclude_dirs = {} /\ denied = {}
    /\ w_pc = "idle" /\ w_root = 0 /\ w_stack = <<>>
    /\ w_cur = [path |-> <<>>, depth |-> 0] /\ w_entries = {} /\ w_out = <<>>
    /\ w_lists = [d \in 1..Len(Nodes) |-> 0]

\* iter_files, lines 98-100: the next root; _walk_scandir starts (line 73) on a
\* root that exists
IterRoot ==
    /\ w_pc = "iter"
    /\ IF w_root = Len(roots)
       THEN /\ w_pc' = "end"
            /\ UNCHANGED <<w_root, w_stack>>
       ELSE /\ w_root' = w_root + 1
            /\ IF Exists(roots[w_root + 1])
               THEN /\ w_stack' = <<[path |-> <<roots[w_root + 1]>>, depth |-> 0]>>
                    /\ w_pc' = "walk"
               ELSE /\ w_pc' = "iter"
                    /\ UNCHANGED w_stack
    /\ UNCHANGED <<cfgVars, runVars, matchVars, parseVars, walkArgs, w_cur,
                   w_entries, w_out, w_lists>>

WalkPop_NoExcept ==
    /\ w_pc = "walk"
    /\ IF w_stack = <<>>
       THEN /\ w_pc' = "iter"
            /\ UNCHANGED <<w_stack, w_cur, w_entries, w_lists>>
       ELSE LET cur == Last(w_stack)
                it == ScanDir(cur.path)
            IN  /\ w_stack' = SubSeq(w_stack, 1, Len(w_stack) - 1)
                /\ w_cur' = cur
                /\ IF it.raised
                   THEN /\ w_pc' = "raised"
                        /\ UNCHANGED <<w_entries, w_lists>>
                   ELSE /\ w_entries' = it.entries
                        /\ w_lists' = [w_lists EXCEPT
                                          ![Resolved(Last(cur.path))] = @ + 1]
                        /\ w_pc' = "list"
    /\ UNCHANGED <<cfgVars, runVars, matchVars, parseVars, walkArgs, w_root, w_out>>

\* _walk_scandir, lines 74-79: the loop test, stack.pop(), os.scandir(cur); a
\* listing that raises is skipped
WalkPop ==
    /\ w_pc = "walk"
    /\ IF w_stack = <<>>
       THEN /\ w_pc' = "iter"
            /\ UNCHANGED <<w_stack, w_cur, w_entries, w_lists>>
       ELSE LET cur == Last(w_stack)
                it == ScanDir(cur.path)
            IN  /\ w_stack' = SubSeq(w_stack, 1, Len(w_stack) - 1)
                /\ w_cur' = cur
                /\ IF it.raised
                   THEN /\ w_pc' = "walk"
                        /\ UNCHANGED <<w_entries, w_lists>>
                   ELSE /\ w_entries' = it.entries
                        /\ w_lists' = [w_lists EXCEPT
                                          ![Resolved(Last(cur.path))] = @ + 1]
                        /\ w_pc' = "list"
    /\ UNCHANGED <<cfgVars, runVars, matchVars, parseVars, walkArgs, w_root, w_out>>

WalkEntry_DepthOffByOne ==
    /\ w_pc = "list"
    /\ IF w_entries = {}
       THEN /\ w_pc' = "walk"
            /\ UNCHANGED <<w_stack, w_entries, w_out>>
       ELSE \E e \in w_entries :
               LET next_depth == w_cur.depth + 1
                   path == Append(w_cur.path, e)
               IN  /\ w_entries' = w_entries \ {e}
                   /\ w_pc' = "list"
                   /\ IF EntryRaises(w_cur.path, e)
                      THEN UNCHANGED <<w_stack, w_out>>
                      ELSE IF IsDir(e, follow_symlinks)
                      THEN /\ w_stack' =
                                (IF Nodes[e].name \in exclude_dirs THEN w_stack
                                 ELSE IF max_depth = NoDepth \/ next_depth < max_depth
                                 THEN Append(w_stack, [path |-> path,
                                                       depth |-> next_depth])
                                 ELSE w_stack)
                           /\ UNCHANGED w_out
                      ELSE /\ w_out' =
                                (IF \/ IsFile(e, follow_symlinks)
                                    \/ follow_symlinks /\ IsSymlink(e)
                                 THEN Append(w_out, [root |-> w_root, path |-> path])
                                 ELSE w_out)
                           /\ UNCHANGED w_stack
    /\ UNCHANGED <<cfgVars, runVars, matchVars, parseVars, walkArgs, w_root, w_cur,
                   w_lists>>

WalkEntry_NoExcept ==
    /\ w_pc = "list"
    /\ IF w_entries = {}
       THEN /\ w_pc' = "walk"
            /\ UNCHANGED <<w_stack, w_entries, w_out>>
       ELSE \E e \in w_entries :
               LET next_depth == w_cur.depth + 1
                   path == Append(w_cur.path, e)
               IN  /\ w_entries' = w_entries \ {e}
                   /\ w_pc' = (IF EntryRaises(w_cur.path, e) THEN "raised"
                               ELSE "list")
                   /\ IF EntryRaises(w_cur.path, e)
                      THEN UNCHANGED <<w_stack, w_out>>
                      ELSE IF IsDir(e, follow_symlinks)
                      THEN /\ w_stack' =
                                (IF Nodes[e].name \in exclude_dirs THEN w_stack
                                 ELSE IF max_depth = NoDepth \/ next_depth <= max_depth
                                 THEN Append(w_stack, [path |-> path,
                                                       depth |-> next_depth])
                                 ELSE w_stack)
                           /\ UNCHANGED w_out
                      ELSE /\ w_out' =
                                (IF \/ IsFile(e, follow_symlinks)
                                    \/ follow_symlinks /\ IsSymlink(e)
                                 THEN Append(w_out, [root |-> w_root, path |-> path])
                                 ELSE w_out)
                           /\ UNCHANGED w_stack
    /\ UNCHANGED <<cfgVars, runVars, matchVars, parseVars, walkArgs, w_root, w_cur,
                   w_lists>>

\* _walk_scandir, lines 81-94: the scandir iterator ends, or it hands over an
\* entry (in no particular order), which is pushed, yielded or passed over
WalkEntry ==
    /\ w_pc = "list"
    /\ IF w_entries = {}
       THEN /\ w_pc' = "walk"
            /\ UNCHANGED <<w_stack, w_entries, w_out>>
       ELSE \E e \in w_entries :
               LET next_depth == w_cur.depth + 1
                   path == Append(w_cur.path, e)
               IN  /\ w_entries' = w_entries \ {e}
                   /\ w_pc' = "list"
                   /\ IF EntryRaises(w_cur.path, e)
                      THEN UNCHANGED <<w_stack, w_out>>
                      ELSE IF IsDir(e, follow_symlinks)
                      THEN /\ w_stack' =
                                (IF Nodes[e].name \in exclude_dirs THEN w_stack
                                 ELSE IF max_depth = NoDepth \/ next_depth <= max_depth
                                 THEN Append(w_stack, [path |-> path,
                                                       depth |-> next_depth])
                                 ELSE w_stack)
                           /\ UNCHANGED w_out
                      ELSE /\ w_out' =
                                (IF \/ IsFile(e, follow_symlinks)
                                    \/ follow_symlinks /\ IsSymlink(e)
                                 THEN Append(w_out, [root |-> w_root, path |-> path])
                                 ELSE w_out)
                           /\ UNCHANGED w_stack
    /\ UNCHANGED <<cfgVars, runVars, matchVars, parseVars, walkArgs, w_root, w_cur,
                   w_lists>>

-----------------------------------------------------------------------------
(* The Coordinator: search() *)

\* the pending-list length at which the pooled loop drains: 2048 in
\* search.py:199, scaled down here
BatchSize == 2
\* the longest candidate feed
MaxFeed == 3
\* the clock runs until this much time has passed beyond the idle timeout since
\* the last emission (or the start)
Slack == 1

\* the files the traversal yields: two hard links matched by name, a file
\* matched by content only, a binary file, a third file matched by name
FeedFiles == {1, 2, 3, 4, 5}
Limits == {1, 2, 3}
IdleTimeouts == {0, 1}

\* _file_id: (st_dev, st_ino), or the path when stat raises
_file_id(path) ==
    IF Files[path].io = "stat" THEN <<path>>
    ELSE <<Files[path].dev, Files[path].ino>>

timed_out_Never == FALSE

\* timed_out()
timed_out == idle_deadline # NoTime /\ now >= idle_deadline

\* the coordinator state maybe_emit reads and writes
EmitState ==
    [seen_ids |-> seen_ids, results |-> results, callback_log |-> callback_log,
     emitted_count |-> emitted_count, last_emit_time |-> last_emit_time,
     idle_deadline |-> idle_deadline, stopped_reason |-> stopped_reason,
     stop_event |-> stop_event, ret |-> TRUE]

maybe_emit_NoDedup(path) ==
    [seen_ids |-> seen_ids \cup {_file_id(path)},
     results |-> IF stream_callback THEN results ELSE Append(results, path),
     callback_log |-> IF stream_callback THEN Append(callback_log, path)
                      ELSE callback_log,
     emitted_count |-> emitted_count + 1,
     last_emit_time |-> now,
     idle_deadline |-> IF idle_timeout_sec > 0 THEN now + idle_timeout_sec
                       ELSE idle_deadline,
     stopped_reason |-> IF emitted_count + 1 >= Max(1, limit) THEN "limit"
                        ELSE stopped_reason,
     stop_event |-> IF emitted_count + 1 >= Max(1, limit) THEN TRUE ELSE stop_event,
     ret |-> ~ (emitted_count + 1 >= Max(1, limit))]

maybe_emit_LimitOffByOne(path) ==
    IF _file_id(path) \in seen_ids THEN EmitState
    ELSE [maybe_emit_NoDedup(path) EXCEPT
            !.stopped_reason = IF emitted_count + 1 > Max(1, limit) THEN "limit"
                               ELSE stopped_reason,
            !.stop_event = IF emitted_count + 1 > Max(1, limit) THEN TRUE
                           ELSE stop_event,
            !.ret = ~ (emitted_count + 1 > Max(1, limit))]

maybe_emit_Prepend(path) ==
    IF _file_id(path) \in seen_ids THEN EmitState
    ELSE [maybe_emit_NoDedup(path) EXCEPT
            !.results = IF stream_callback THEN results ELSE <<path>> \o results,
            !.callback_log = IF stream_callback THEN <<path>> \o callback_log
                             ELSE callback_log]

maybe_emit_DupResetsTimer(path) ==
    IF _file_id(path) \in seen_ids
    THEN [EmitState EXCEPT
            !.last_emit_time = now,
            !.idle_deadline = IF idle_timeout_sec > 0 THEN now + idle_timeout_sec
                              ELSE idle_deadline]
    ELSE maybe_emit_NoDedup(path)

maybe_emit_BothChannels(path) ==
    IF _file_id(path) \in seen_ids THEN EmitState
    ELSE [maybe_emit_NoDedup(path) EXCEPT !.results = Append(results, path)]

\* maybe_emit(path), with reset_idle_timer() inlined: the coordinator state after
\* the call, and what the call returns (ret)
maybe_emit(path) ==
    LET fid == _file_id(path)
        count == emitted_count + 1
    IN  IF fid \in seen_ids THEN EmitState
        ELSE [seen_ids |-> seen_ids \cup {fid},
              results |-> IF stream_callback THEN results
                          ELSE Append(results, path),
              callback_log |-> IF stream_callback THEN Append(callback_log, path)
                               ELSE callback_log,
              emitted_count |-> count,
              last_emit_time |-> now,
              idle_deadline |-> IF idle_timeout_sec > 0 THEN now + idle_timeout_sec
                                ELSE idle_deadline,
              stopped_reason |-> IF count >= Max(1, limit) THEN "limit"
                                 ELSE stopped_reason,
              stop_event |-> IF count >= Max(1, limit) THEN TRUE ELSE stop_event,
              ret |-> ~ (count >= Max(1, limit))]

emitVars == <<seen_ids, results, callback_log, emitted_count, last_emit_time,
              idle_deadline, stopped_reason, stop_event>>

\* the assignments a maybe_emit call makes
Emitted(e) ==
    /\ seen_ids' = e.seen_ids
    /\ results' = e.results
    /\ callback_log' = e.callback_log
    /\ emitted_count' = e.emitted_count
    /\ last_emit_time' = e.last_emit_time
    /\ idle_deadline' = e.idle_deadline
    /\ stopped_reason' = e.stopped_reason
    /\ stop_event' = e.stop_event

\* what a worker (or the inline loop) computes for a candidate
Evaluated(path) ==
    _evaluate_path(path, query, scan_content, content_only,
                   MaxBytes(max_content_size_mb), ext_match_or)

\* search() up to the loops: lines 124-135
Begin ==
    /\ pc = "for" /\ feed = <<>> /\ exhausted = FALSE /\ p = NoPath
    /\ start = 0 /\ now = start
    /\ results = <<>>
    /\ stop_event = FALSE /\ seen_ids = {} /\ emitted_count = 0
    /\ stopped_reason = "complete"
    /\ idle_deadline = (IF idle_timeout_sec > 0 THEN start + idle_timeout_sec
                        ELSE NoTime)
    /\ last_emit_time = NoTime
    /\ futures = <<>> /\ orphans = 0 /\ evaluated = {}
    /\ callback_log = <<>> /\ stats = NoStats

NoMatchCall ==
    /\ m_path = 1 /\ m_done = TRUE /\ m_ret = [match |-> FALSE, opened |-> FALSE, raised |-> FALSE]

Init ==
    /\ tree = FeedFiles
    /\ endless = FALSE
    /\ query = SearchQuery
    /\ scan_content \in BOOLEAN
    /\ content_only = FALSE
    /\ ext_match_or = FALSE
    /\ max_content_size_mb = 10
    /\ limit \in Limits
    /\ idle_timeout_sec \in IdleTimeouts
    /\ stream_callback \in BOOLEAN
    /\ Begin
    /\ NoMatchCall
    /\ NoParse
    /\ NoWalk

\* the top of either `for p in iter_files(...)` loop: iter_files ends, or it
\* yields a file and the stop check of lines 170-173 / 192-195 follows; `out` is
\* where the loop's exit leads and `body` the loop body
LoopTop(out, body) ==
    \/ /\ ~ endless
       /\ exhausted' = TRUE
       /\ pc' = out
       /\ UNCHANGED <<feed, p, stopped_reason>>
    \/ /\ endless \/ Len(feed) < MaxFeed
       /\ \E f \in tree :
             /\ p' = f
             /\ feed' = (IF endless THEN feed ELSE Append(feed, f))
       /\ IF stop_event \/ timed_out
          THEN /\ stopped_reason' = (IF timed_out THEN "idle_timeout"
                                     ELSE stopped_reason)
               /\ pc' = out
          ELSE /\ pc' = body
               /\ UNCHANGED stopped_reason
       /\ UNCHANGED exhausted

\* lines 169-173
InlineNext ==
    /\ pc = "for" /\ ~ scan_content
    /\ LoopTop("return", "eval")
    /\ UNCHANGED <<cfgVars, matchVars, otherVars, now, start, results, stop_event, seen_ids,
                   emitted_count, idle_deadline, last_emit_time, futures, orphans,
                   evaluated, callback_log, stats>>

\* lines 174-177
InlineEval ==
    /\ pc = "eval"
    /\ evaluated' = evaluated \cup {p}
    /\ IF Evaluated(p).raised
       THEN /\ pc' = "raised"
            /\ UNCHANGED emitVars
       ELSE IF Evaluated(p).match
       THEN LET e == maybe_emit(p)
            IN  /\ Emitted(e)
                /\ pc' = (IF e.ret THEN "for" ELSE "return")
       ELSE /\ pc' = "for"
            /\ UNCHANGED emitVars
    /\ UNCHANGED <<cfgVars, matchVars, otherVars, feed, exhausted, p, now, start, futures, orphans, stats>>

\* lines 191-195
PooledNext ==
    /\ pc = "for" /\ scan_content
    /\ LoopTop("final", "submit")
    /\ UNCHANGED <<cfgVars, matchVars, otherVars, now, start, results, stop_event, seen_ids,
                   emitted_count, idle_deadline, last_emit_time, futures, orphans,
                   evaluated, callback_log, stats>>

PooledSubmit_NoBatchDrain ==
    /\ pc = "submit"
    /\ futures' = Append(futures, [path |-> p, state |-> "pending",
                                   match |-> FALSE, raised |-> FALSE,
                                   yielded |-> FALSE])
    /\ IF timed_out
       THEN /\ stopped_reason' = "idle_timeout"
            /\ pc' = "drain"
       ELSE /\ pc' = "for"
            /\ UNCHANGED stopped_reason
    /\ UNCHANGED <<cfgVars, matchVars, otherVars, feed, exhausted, p, now, start, results, stop_event,
                   seen_ids, emitted_count, idle_deadline, last_emit_time,
                   orphans, evaluated, callback_log, stats>>

\* lines 196-201: ex.submit, then the batch check; dst is "drain" or "for"
PooledSubmit ==
    /\ pc = "submit"
    /\ futures' = Append(futures, [path |-> p, state |-> "pending",
                                   match |-> FALSE, raised |-> FALSE,
                                   yielded |-> FALSE])
    /\ IF Len(futures') >= BatchSize \/ timed_out
       THEN /\ stopped_reason' = (IF timed_out THEN "idle_timeout"
                                  ELSE stopped_reason)
            /\ pc' = "drain"
       ELSE /\ pc' = "for"
            /\ UNCHANGED stopped_reason
    /\ UNCHANGED <<cfgVars, matchVars, otherVars, feed, exhausted, p, now, start, results, stop_event,
                   seen_ids, emitted_count, idle_deadline, last_emit_time,
                   orphans, evaluated, callback_log, stats>>

\* one turn of `for fut in as_completed(futures)`: the iterator is exhausted, or
\* it hands over a finished future it has not handed over yet; `stopped` is the
\* loop's break condition.  [left |-> the loop is left, fut |-> the future handed
\* over (0: none), emit |-> maybe_emit is called on it, raise |-> fut.result()
\* raises what the task raised]
AsCompleted(stopped) ==
    IF \A i \in 1..Len(futures) : futures[i].yielded
    THEN {[left |-> TRUE, fut |-> 0, emit |-> FALSE, raise |-> FALSE]}
    ELSE {[left |-> stopped \/ (futures[i].match /\ ~ maybe_emit(futures[i].path).ret),
           fut |-> i,
           emit |-> ~ stopped /\ ~ futures[i].raised /\ futures[i].match,
           raise |-> ~ stopped /\ futures[i].raised] :
             i \in {j \in 1..Len(futures) :
                      futures[j].state = "done" /\ ~ futures[j].yielded}}

\* the futures still pending in a list
Pending(fs) == Cardinality({i \in 1..Len(fs) : fs[i].state = "pending"})

\* lines 202-210: one turn of the batch drain; when the loop is left,
\* futures.clear() (the tasks still running stay in the pool) and the check that
\* leaves the traversal loop
DrainStep ==
    /\ pc = "drain"
    /\ \E t \in AsCompleted(stop_event \/ stopped_reason = "idle_timeout") :
          /\ IF t.emit THEN Emitted(maybe_emit(futures[t.fut].path))
             ELSE UNCHANGED emitVars
          /\ IF t.raise
             THEN /\ pc' = "raised"
                  /\ UNCHANGED <<futures, orphans>>
             ELSE IF t.left
             THEN /\ futures' = <<>>
                  /\ orphans' = orphans + Pending(futures)
                  /\ pc' = (IF stop_event' \/ stopped_reason' = "idle_timeout"
                            THEN "final" ELSE "for")
             ELSE /\ futures' = [futures EXCEPT ![t.fut].yielded = TRUE]
                  /\ pc' = "drain"
                  /\ UNCHANGED orphans
    /\ UNCHANGED <<cfgVars, matchVars, otherVars, feed, exhausted, p, now, start, evaluated, stats>>

FinalStep_Skip ==
    /\ pc = "final"
    /\ pc' = "return"
    /\ UNCHANGED <<cfgVars, matchVars, otherVars, feed, exhausted, p, now, start, emitVars, futures,
                   orphans, evaluated, stats>>

\* lines 212-217: one turn of the final drain
FinalStep ==
    /\ pc = "final"
    /\ \E t \in AsCompleted(stop_event) :
          /\ IF t.emit THEN Emitted(maybe_emit(futures[t.fut].path))
             ELSE UNCHANGED emitVars
          /\ futures' = (IF t.fut = 0 THEN futures
                         ELSE [futures EXCEPT ![t.fut].yielded = TRUE])
          /\ pc' = (IF t.raise THEN "raised"
                    ELSE IF t.left THEN "return" ELSE "final")
    /\ UNCHANGED <<cfgVars, matchVars, otherVars, feed, exhausted, p, now, start, orphans, evaluated, stats>>

\* the `with ThreadPoolExecutor(...)` block ends with shutdown(wait=True): the
\* pooled strategy goes on once no task is queued or running
PoolQuiet ==
    /\ orphans = 0
    /\ \A i \in 1..Len(futures) : futures[i].state = "done"

Return_NoWait ==
    /\ pc = "return"
    /\ LET end == now
           since == IF last_emit_time = NoTime \/ last_emit_time = 0 THEN start
                    ELSE last_emit_time
           idle_gap == IF stopped_reason = "idle_timeout" THEN Max(0, end - since)
                       ELSE 0
       IN  stats' = [emitted |-> emitted_count, wall_time_sec |-> end - start,
                     idle_time_sec |-> idle_gap, stopped_reason |-> stopped_reason]
    /\ pc' = "done"
    /\ UNCHANGED <<cfgVars, matchVars, otherVars, feed, exhausted, p, now, start, emitVars, futures,
                   orphans, evaluated>>

\* lines 178-186, and the end of the `with` block followed by lines 219-227
Return ==
    /\ pc = "return"
    /\ scan_content => PoolQuiet
    /\ LET end == now
           since == IF last_emit_time = NoTime \/ last_emit_time = 0 THEN start
                    ELSE last_emit_time
           idle_gap == IF stopped_reason = "idle_timeout" THEN Max(0, end - since)
                       ELSE 0
       IN  stats' = [emitted |-> emitted_count, wall_time_sec |-> end - start,
                     idle_time_sec |-> idle_gap, stopped_reason |-> stopped_reason]
    /\ pc' = "done"
    /\ UNCHANGED <<cfgVars, matchVars, otherVars, feed, exhausted, p, now, start, emitVars, futures,
                   orphans, evaluated>>

\* a pool thread runs _evaluate_path for a submitted task
WorkerRun ==
    \E i \in 1..Len(futures) :
        /\ futures[i].state = "pending"
        /\ futures' = [futures EXCEPT ![i].state = "done",
                                      ![i].match = Evaluated(futures[i].path).match,
                                      ![i].raised = Evaluated(futures[i].path).raised]
        /\ evaluated' = evaluated \cup {futures[i].path}
        /\ UNCHANGED <<cfgVars, matchVars, otherVars, pc, feed, exhausted, p, now, start, emitVars,
                       orphans, stats>>

\* a pool thread finishes a task whose future the coordinator dropped
OrphanRun ==
    /\ orphans > 0
    /\ orphans' = orphans - 1
    /\ UNCHANGED <<cfgVars, matchVars, otherVars, pc, feed, exhausted, p, now, start, emitVars, futures,
                   evaluated, stats>>

\* time.monotonic() advances
Tick ==
    /\ pc \notin {"done", "raised", "idle"}
    /\ now - (IF last_emit_time = NoTime THEN start ELSE last_emit_time)
          < idle_timeout_sec + Slack
    /\ now' = now + 1
    /\ UNCHANGED <<cfgVars, matchVars, otherVars, pc, feed, exhausted, p, start, emitVars, futures,
                   orphans, evaluated, stats>>

Next ==
    \/ InlineNext
    \/ InlineEval
    \/ PooledNext
    \/ PooledSubmit
    \/ DrainStep
    \/ FinalStep
    \/ Return
    \/ WorkerRun
    \/ OrphanRun
    \/ Tick

Spec == Init /\ [][Next]_vars

\* other directory contents: a name match, a second name match and a hard link
\* of it that matches nothing; a name match and three files whose stat or open
\* raises
LinkTree == {1, 5, 12}
ErrTree == {1, 7, 9, 11}
OtherTrees == {LinkTree, ErrTree}

InitOther ==
    /\ tree \in OtherTrees
    /\ endless = FALSE
    /\ query = SearchQuery
    /\ scan_content \in BOOLEAN
    /\ content_only = FALSE
    /\ ext_match_or = FALSE
    /\ max_content_size_mb = 10
    /\ limit \in Limits
    /\ idle_timeout_sec \in IdleTimeouts
    /\ stream_callback \in BOOLEAN
    /\ Begin
    /\ NoMatchCall
    /\ NoParse
    /\ NoWalk

SpecOther == InitOther /\ [][Next]_vars

\* the directory contents of the endless traversals: a binary file alone; a name
\* match and a binary file; a content match and a name match
LiveTrees == {{4}, {3}, {1, 4}}

\* a traversal that never exhausts (it yields files of `tree` for ever), with an
\* idle timeout and fewer than `limit` matching identities
InitLive ==
    /\ tree \in LiveTrees
    /\ endless = TRUE
    /\ query = SearchQuery
    /\ scan_content \in BOOLEAN
    /\ content_only = FALSE
    /\ ext_match_or = FALSE
    /\ max_content_size_mb = 10
    /\ limit \in Limits
    /\ idle_timeout_sec \in IdleTimeouts \ {0}
    /\ stream_callback = FALSE
    /\ Cardinality({_file_id(f) : f \in {g \in tree : Evaluated(g).match}}) < limit
    /\ Begin
    /\ NoMatchCall
    /\ NoParse
    /\ NoWalk

\* the steps of the thread that called search(): one at a time, by pc
Coordinator ==
    \/ InlineNext \/ InlineEval
    \/ PooledNext \/ PooledSubmit \/ DrainStep \/ FinalStep
    \/ Return

\* the coordinating thread keeps running, the pool's threads finish the tasks
\* they are given, and time passes
Fairness ==
    /\ WF_vars(Coordinator)
    /\ WF_vars(WorkerRun)
    /\ WF_vars(OrphanRun)
    /\ WF_vars(Tick)

SpecLive == InitLive /\ [][Next]_vars /\ Fairness

\* the finite traversals of Spec under the same scheduling
SpecFair == Init /\ [][Next]_vars /\ Fairness

-----------------------------------------------------------------------------
(* Claims about search() *)

Range(f) == {f[i] : i \in 1..Len(f)}

\* the file identities of the files of S that the Matcher accepts
AcceptedIdsOf(S) == {_file_id(f) : f \in {g \in S : Evaluated(g).match}}

\* those of the candidates the traversal has yielded
AcceptedIds == AcceptedIdsOf(Range(feed))

\* the paths emitted so far, in order
EmittedPaths == results \o callback_log

EmittedIds == {_file_id(f) : f \in Range(EmittedPaths)}

Returned == pc = "done"

\* C1: with no idle timeout, in both strategies, a search over candidates that
\* hold accepted matches for more than `limit` file identities returns with
\* stats.emitted = limit and stats.stopped_reason = "limit", whatever the order
\* in which the workers finish: a search that returns before the traversal has
\* ended has stopped at the limit, and so has one that has taken every candidate
\* when these hold more than `limit` accepted identities.
C1_LimitReached ==
    (Returned /\ idle_timeout_sec = 0
       /\ (~ exhausted \/ Cardinality(AcceptedIds) > limit))
        => (stats.emitted = limit /\ stats.stopped_reason = "limit")

\* the pooled strategy took candidates of two accepted identities in one batch
\* and stopped at limit 1
C1_Witness ==
    /\ Returned /\ idle_timeout_sec = 0 /\ scan_content /\ limit = 1
    /\ Cardinality(AcceptedIds) = 2 /\ Len(futures) = 0
    /\ stats.emitted = 1 /\ stats.stopped_reason = "limit"

\* C2: at most one path per file identity is emitted, and the emitted counter
\* counts identities: an accepted path whose identity was already seen adds
\* nothing to it.
C2_OnePathPerIdentity ==
    /\ \A i, j \in 1..Len(EmittedPaths) :
          i # j => _file_id(EmittedPaths[i]) # _file_id(EmittedPaths[j])
    /\ emitted_count = Cardinality(EmittedIds)

\* both hard links were evaluated and accepted, one was emitted, and the limit of
\* 2 was reached only with the next identity
C2_Witness ==
    /\ Returned /\ limit = 2 /\ feed = <<1, 2, 5>>
    /\ evaluated = {1, 2, 5}
    /\ stats.emitted = 2 /\ stats.stopped_reason = "limit"
    /\ EmittedIds = {_file_id(1), _file_id(5)}

\* C3: in the pooled strategy, once the limit was reached or the coordinator has
\* set the stop reason to idle_timeout, no step submits a candidate and no step
\* emits a match.
C3_NoEmitAfterStop ==
    [][(scan_content /\ (stop_event \/ stopped_reason = "idle_timeout"))
          => /\ Len(futures') <= Len(futures)
             /\ emitted_count' = emitted_count
             /\ results' = results
             /\ callback_log' = callback_log]_vars

\* C4: a search that returns "idle_timeout" reports an idle_time_sec of at least
\* idle_timeout_sec.
C4_IdleGapAtLeastTimeout ==
    (Returned /\ stats.stopped_reason = "idle_timeout")
        => stats.idle_time_sec >= idle_timeout_sec

\* C5: with an idle timeout, fewer than `limit` matching identities and a
\* traversal that never exhausts, search eventually returns with stopped_reason
\* "idle_timeout", in both strategies.
C5_IdleTimeoutFires ==
    (endless /\ idle_timeout_sec > 0
       /\ Cardinality(AcceptedIdsOf(tree)) < Max(1, limit))
        => <>(Returned /\ stats.stopped_reason = "idle_timeout")

\* a pooled search over an endless feed with one matching identity returned
\* "idle_timeout" after emitting it
C5_Witness ==
    /\ Returned /\ endless /\ scan_content /\ limit = 2
    /\ Cardinality(AcceptedIdsOf(tree)) = 1
    /\ stats.stopped_reason = "idle_timeout" /\ stats.emitted = 1

\* C6: at the return, with a callback the results list is empty and the callback
\* was invoked once per emitted match; without one, results holds the emitted
\* matches and nothing else was delivered.
C6_OneChannel ==
    Returned =>
        IF stream_callback
        THEN results = <<>> /\ Len(callback_log) = stats.emitted
        ELSE callback_log = <<>> /\ Len(results) = stats.emitted

\* a streaming pooled search delivered two matches and returned no results
C6_Witness ==
    /\ Returned /\ stream_callback /\ scan_content
    /\ results = <<>> /\ Len(callback_log) = 2 /\ stats.emitted = 2

\* C7: a search that returns "complete" has exhausted the traversal, evaluated
\* every candidate, left no task running, and emitted exactly the identities of
\* the candidates the Matcher accepts; and with no idle timeout, a search that
\* has exhausted a traversal holding fewer than `limit` accepted identities
\* returns "complete", whatever the order in which the workers finish.
C7_CompleteEmitsAll ==
    /\ (Returned /\ stats.stopped_reason = "complete")
          => /\ exhausted
             /\ Range(feed) \subseteq evaluated
             /\ orphans = 0
             /\ \A i \in 1..Len(futures) : futures[i].state = "done"
             /\ EmittedIds = AcceptedIds
    /\ (Returned /\ idle_timeout_sec = 0 /\ exhausted
          /\ Cardinality(AcceptedIds) < limit)
          => stats.stopped_reason = "complete"

\* a pooled search with an idle timeout completed with two identities emitted,
\* the content match before the name match that the traversal produced first
C7_Witness ==
    /\ Returned /\ scan_content /\ stats.stopped_reason = "complete"
    /\ idle_timeout_sec > 0 /\ ~ stream_callback
    /\ feed = <<1, 3, 4>> /\ results = <<3, 1>>

-----------------------------------------------------------------------------
(* One _evaluate_path call on its own: the arguments are drawn in InitMatch, *)
(* Evaluate applies the function.                                            *)

IdleRun ==
    /\ pc = "idle" /\ feed = <<>> /\ exhausted = FALSE /\ p = NoPath /\ now = 0 /\ start = 0
    /\ results = <<>> /\ stop_event = FALSE /\ seen_ids = {} /\ emitted_count = 0
    /\ stopped_reason = "complete" /\ idle_deadline = NoTime /\ last_emit_time = NoTime
    /\ futures = <<>> /\ orphans = 0 /\ evaluated = {} /\ callback_log = <<>>
    /\ stats = NoStats

InitMatch ==
    /\ m_path \in Paths
    /\ m_done = FALSE
    /\ m_ret = [match |-> FALSE, opened |-> FALSE, raised |-> FALSE]
    /\ query \in Queries
    /\ scan_content \in BOOLEAN
    /\ content_only \in BOOLEAN
    /\ ext_match_or \in BOOLEAN
    /\ max_content_size_mb \in {0, 1}
    /\ tree = {} /\ endless = FALSE /\ limit = 1 /\ idle_timeout_sec = 0
    /\ stream_callback = FALSE
    /\ IdleRun
    /\ NoParse
    /\ NoWalk

Evaluate ==
    /\ pc = "idle"
    /\ ~ m_done
    /\ m_done' = TRUE
    /\ m_ret' = _evaluate_path(m_path, query, scan_content, content_only,
                               MaxBytes(max_content_size_mb), ext_match_or)
    /\ UNCHANGED <<cfgVars, runVars, otherVars, m_path>>

NextMatch == Evaluate

SpecMatch == InitMatch /\ [][NextMatch]_vars

\* what the claims about the Matcher speak of, for the file in m_path
m_name == Files[m_path].name
m_fn == IF query.case_sensitive THEN m_name ELSE Lower(m_name)
m_st == IF query.case_sensitive THEN PathStem(m_name) ELSE Lower(PathStem(m_name))
m_ext == Lower(PathSuffix(m_name))
ExactHit == InList(m_fn, query.exact_filenames) \/ InList(m_st, query.exact_stems)
TokenInName ==
    \E i \in 1..Len(query.tokens) :
        query.tokens[i] # <<>> /\ IsSubstr(query.tokens[i], m_fn)
ExtInFilter == m_ext \in query.and_extensions

TokenInContent ==
    /\ scan_content
    /\ Files[m_path].io = "ok"
    /\ Files[m_path].size <= MaxBytes(max_content_size_mb)
    /\ is_probably_text(m_path).val
    /\ \E i \in 1..Len(query.tokens) :
          /\ query.tokens[i] # <<>>
          /\ IsSubstr(query.tokens[i],
                      IF query.case_sensitive THEN Decode(Files[m_path].data)
                      ELSE Lower(Decode(Files[m_path].data)))

C9_TokenMatchNeedsExt ==
    (m_done /\ query.and_extensions # {} /\ ~ ext_match_or)
        => /\ (m_ret.match /\ ~ ExactHit) => ExtInFilter
           /\ (((TokenInName /\ ~ content_only) \/ TokenInContent) /\ ExtInFilter)
                  => m_ret.match
           /\ ((TokenInName \/ TokenInContent) /\ ~ ExtInFilter /\ ~ ExactHit)
                  => ~ m_ret.match

\* notes.md is rejected for the token "ote" under the filter {".txt"}
C9_Witness ==
    /\ m_done /\ ~ ext_match_or /\ ~ content_only
    /\ query.and_extensions = {e_txt}
    /\ TokenInName /\ ~ ExactHit
    /\ m_ext = e_md
    /\ ~ m_ret.match

\* C10: with ext_match_or set, and_extensions non-empty and the file's lowercased
\* extension a member, the file is accepted whatever content_only, scan_content,
\* the name and the content are, and it is not opened.
C10_ExtOrAccepts ==
    (m_done /\ ext_match_or /\ query.and_extensions # {} /\ ExtInFilter)
        => (m_ret.match /\ ~ m_ret.opened)

\* a file that fails every other predicate, with content scanning on, accepted
C10_Witness ==
    /\ m_done /\ ext_match_or /\ ExtInFilter
    /\ content_only /\ scan_content
    /\ ~ TokenInName /\ ~ TokenInContent /\ ~ ExactHit
    /\ m_ret.match /\ ~ m_ret.opened

\* the extension-OR rule and the name rule of _evaluate_path, for m_path
ExtOrRule == ext_match_or /\ query.and_extensions # {} /\ ExtInFilter
NameRule ==
    /\ ~ content_only
    /\ query.and_extensions = {} \/ ExtInFilter
    /\ ExactHit \/ TokenInName

\* the file's bytes, decoded, contain a token
ContentHasToken ==
    \E i \in 1..Len(query.tokens) :
        /\ query.tokens[i] # <<>>
        /\ IsSubstr(query.tokens[i],
                    IF query.case_sensitive THEN Decode(Files[m_path].data)
                    ELSE Lower(Decode(Files[m_path].data)))

\* C11: a file larger than max_content_size_mb * 1024 * 1024 bytes is accepted
\* only if the extension-OR rule or the name rule accepts it, never for its
\* content: with content_only set and ext_match_or unset it is rejected.
C11_OversizeNeverByContent ==
    (m_done /\ Files[m_path].size > max_content_size_mb * 1024 * 1024)
        => /\ m_ret.match <=> (ExtOrRule \/ NameRule)
           /\ (content_only /\ ~ ext_match_or) => ~ m_ret.match

\* big.txt (1 MiB + 1 byte, content "inv") under a 1 MiB cap, content scanning
\* on, content_only, the token "inv" and no extension filter: rejected
C11_Witness ==
    /\ m_done /\ scan_content /\ content_only /\ ~ ext_match_or
    /\ max_content_size_mb = 1
    /\ Files[m_path].size = MB + 1 /\ Files[m_path].io = "ok"
    /\ is_probably_text(m_path).val
    /\ query.and_extensions = {} /\ ContentHasToken
    /\ ~ m_ret.match

-----------------------------------------------------------------------------
(* More claims about search() *)

\* the emitted paths are candidates, in the order the traversal produced them
EmittedInFeedOrder ==
    \E idx \in [1..Len(EmittedPaths) -> 1..Len(feed)] :
        /\ \A k \in 1..Len(EmittedPaths) : feed[idx[k]] = EmittedPaths[k]
        /\ \A k, l \in 1..Len(EmittedPaths) : k < l => idx[k] < idx[l]

\* C12 as stated: in the inline strategy the emitted matches are a subsequence
\* of the traversal order, and each emitted path is the first candidate the
\* traversal produced for its file identity.
C12_InlineFirstOfIdentity ==
    (~ scan_content /\ feed # <<>>)
        => /\ EmittedInFeedOrder
           /\ \A k \in 1..Len(EmittedPaths) :
                 \E i \in 1..Len(feed) :
                    /\ feed[i] = EmittedPaths[k]
                    /\ \A j \in 1..(i - 1) :
                          _file_id(feed[j]) # _file_id(feed[i])

\* C12 amended: in the inline strategy the emitted matches are a subsequence of
\* the traversal order, and each emitted path is the first candidate of its
\* file identity that the Matcher accepts.
C12_InlineFirstAcceptedOfIdentity ==
    (~ scan_content /\ feed # <<>>)
        => /\ EmittedInFeedOrder
           /\ \A k \in 1..Len(EmittedPaths) :
                 \E i \in 1..Len(feed) :
                    /\ feed[i] = EmittedPaths[k]
                    /\ \A j \in 1..(i - 1) :
                          Evaluated(feed[j]).match
                              => _file_id(feed[j]) # _file_id(feed[i])

\* the inline search took "old", its hard link INVOICE and inv.txt, and emitted
\* INVOICE then inv.txt
C12_Witness ==
    /\ Returned /\ ~ scan_content /\ ~ stream_callback
    /\ feed = <<12, 5, 1>> /\ results = <<5, 1>>

\* C19: in the pooled strategy the list of submitted tasks not yet drained or
\* discarded never holds more than one batch, the pool never holds more than one
\* batch of unfinished tasks, and a full list is drained before anything more is
\* submitted.
C19_AtMostOneBatch ==
    scan_content
        => /\ Len(futures) <= BatchSize
           /\ Pending(futures) + orphans <= BatchSize
           /\ Len(futures) >= BatchSize => pc = "drain"

\* a full batch is being drained with no idle timeout configured
C19_Witness ==
    /\ scan_content /\ idle_timeout_sec = 0
    /\ pc = "drain" /\ Len(futures) = BatchSize

\* a step of the inline loop that hands maybe_emit an accepted path whose
\* identity is in seen_ids
DupInline ==
    /\ pc = "eval" /\ pc' # "eval"
    /\ Evaluated(p).match /\ _file_id(p) \in seen_ids

\* a turn of a drain loop that hands maybe_emit the result of a future whose
\* path is accepted and has its identity in seen_ids
DupPooled ==
    /\ pc \in {"drain", "final"}
    /\ ~ stop_event /\ (pc = "drain" => stopped_reason # "idle_timeout")
    /\ Len(futures') = Len(futures)
    /\ \E i \in 1..Len(futures) :
          /\ futures[i].state = "done" /\ futures[i].match
          /\ ~ futures[i].yielded /\ futures'[i].yielded
          /\ _file_id(futures[i].path) \in seen_ids

\* C20: processing an accepted match whose identity is already in the seen set
\* changes nothing of the coordinator's emission state (counter, results,
\* callback invocations, seen set, stop flag, stop reason, idle deadline, last
\* emission time), and the loop goes on.
C20_DuplicateIsNoOp ==
    [][(DupInline \/ DupPooled)
          => /\ UNCHANGED emitVars
             /\ pc' = (IF pc = "eval" THEN "for" ELSE pc)]_vars

\* an inline search with an idle timeout took inv.txt and then its hard link
\* Inv.md a time unit later, and completed with one emission
C20_Witness ==
    /\ Returned /\ ~ scan_content /\ idle_timeout_sec > 0
    /\ feed = <<1, 2>> /\ exhausted /\ evaluated = {1, 2}
    /\ stats.emitted = 1 /\ stats.stopped_reason = "complete"
    /\ stats.wall_time_sec >= 1 /\ last_emit_time = 0

\* C16: a candidate whose stat, open or read raises is evaluated to "no match"
\* and not to an error: search never raises, the candidates after it are
\* evaluated (a search that completes has evaluated every candidate and emitted
\* every accepted identity), and a failing candidate is never emitted for its
\* content.
C16_ReadFailureIsNoMatch ==
    /\ pc # "raised"
    /\ \A f \in evaluated :
          Files[f].io # "ok"
              => /\ ~ Evaluated(f).raised
                 /\ Evaluated(f).match
                       => \E i \in 1..Len(query.tokens) :
                             IsSubstr(query.tokens[i], Lower(Files[f].name))
    /\ \A i \in 1..Len(futures) : ~ futures[i].raised
    /\ (Returned /\ stats.stopped_reason = "complete")
          => /\ Range(feed) \subseteq evaluated
             /\ EmittedIds = AcceptedIds

\* a pooled search took raw.log (stat raises), notes.md (open raises) and then
\* inv.txt, evaluated all three, and completed with inv.txt as its one result
C16_Witness ==
    /\ Returned /\ scan_content /\ ~ stream_callback
    /\ feed = <<11, 7, 1>> /\ evaluated = {1, 7, 11}
    /\ results = <<1>> /\ stats.emitted = 1
    /\ stats.stopped_reason = "complete"

\* C21: at the return, stopped_reason is "limit" exactly when stats.emitted is
\* max(1, limit), a search that returns "idle_timeout" or "complete" has
\* emitted fewer, and no step changes a stop reason that is "limit".
C21_LimitIffFull ==
    /\ [](Returned =>
            /\ stats.stopped_reason = "limit" <=> stats.emitted = Max(1, limit)
            /\ stats.stopped_reason \in {"idle_timeout", "complete"}
                  => stats.emitted < Max(1, limit))
    /\ [][stopped_reason = "limit" => stopped_reason' = "limit"]_vars

\* a pooled search whose idle deadline passed (the traversal loop set
\* "idle_timeout") and whose final drain then emitted up to the limit: it
\* returned "limit" with emitted = limit
C21_Witness ==
    /\ Returned /\ scan_content /\ idle_timeout_sec = 1 /\ limit = 2
    /\ ~ exhausted /\ now > start
    /\ stats.emitted = 2 /\ stats.stopped_reason = "limit"

\* C22: in every state of a search call, the emitted counter is the size of the
\* seen-identity set and the number of results buffered plus the number of
\* callback invocations, and is at most max(1, limit).
C22_CounterAgrees ==
    /\ emitted_count = Cardinality(seen_ids)
    /\ emitted_count = Len(results) + Len(callback_log)
    /\ emitted_count <= Max(1, limit)

\* a streaming pooled search in its final drain, time having passed: a batch
\* drain emitted two identities, below the limit of 3, and a third task is
\* still to be handed over
C22_Witness ==
    /\ pc = "final" /\ scan_content /\ limit = 3 /\ idle_timeout_sec = 1
    /\ stream_callback /\ now > start
    /\ emitted_count = 2 /\ Cardinality(seen_ids) = 2 /\ Len(callback_log) = 2
    /\ \E i \in 1..Len(futures) : ~ futures[i].yielded

\* C23: in the pooled strategy, when search has returned no submitted task is
\* queued or running, whatever the stop reason, and with pool threads that
\* finish their tasks every call returns.
C23_ReturnsAfterPool ==
    /\ []((Returned /\ scan_content) => PoolQuiet)
    /\ scan_content => <>Returned

\* a pooled search stopped at limit 1 in a batch drain, which dropped the
\* batch's futures; at the return both tasks have run
C23_Witness ==
    /\ Returned /\ scan_content /\ limit = 1 /\ stats.stopped_reason = "limit"
    /\ feed = <<1, 5>> /\ futures = <<>> /\ orphans = 0
    /\ evaluated = {1, 5}

-----------------------------------------------------------------------------
(* One parse_query call on its own: the arguments are drawn in InitParse,    *)
(* ParseQuery applies the function and leaves its result in query.           *)

\* the command lines: one to MaxTerms terms
CommandLines == UNION {[1..n -> Terms] : n \in 1..MaxTerms}

InitParse ==
    /\ argv_terms \in CommandLines
    /\ case_sensitive \in BOOLEAN
    /\ parsed = FALSE
    /\ query = [exact_filenames |-> <<>>, exact_stems |-> <<>>,
                and_extensions |-> {}, tokens |-> <<>>, case_sensitive |-> FALSE]
    /\ m_path = 1 /\ m_done = TRUE
    /\ m_ret = [match |-> FALSE, opened |-> FALSE, raised |-> FALSE]
    /\ scan_content = FALSE /\ content_only = FALSE /\ ext_match_or = FALSE
    /\ max_content_size_mb = 10
    /\ tree = {} /\ endless = FALSE /\ limit = 1 /\ idle_timeout_sec = 0
    /\ stream_callback = FALSE
    /\ IdleRun
    /\ NoWalk

ParseQuery ==
    /\ pc = "idle"
    /\ argv_terms # <<>> /\ ~ parsed
    /\ query' = parse_query(argv_terms, case_sensitive)
    /\ parsed' = TRUE
    /\ UNCHANGED <<tree, endless, scan_content, content_only, ext_match_or,
                   max_content_size_mb, limit, idle_timeout_sec, stream_callback,
                   runVars, matchVars, walkVars, argv_terms, case_sensitive>>

NextParse == ParseQuery

SpecParse == InitParse /\ [][NextParse]_vars

\* what the claims about parse_query speak of: a term written in quotes, the
\* text of an item (a term without its quotes, stripped), the forms ext:<ext>
\* and type:<category>, a dot followed by an extension
IsQuotedTerm(t) == Len(t) >= 3 /\ t[1] = Quote /\ t[Len(t)] = Quote
ItemText(t) == IF IsQuotedTerm(t) THEN Strip(SubSeq(t, 2, Len(t) - 1)) ELSE t
AllAlnum(x) == x # <<>> /\ \A i \in 1..Len(x) : IsAlnum(x[i])
IsDotExt(x) == Len(x) >= 2 /\ x[1] = "." /\ AllAlnum(Tail(x))
HasPrefix(x, pre) == Len(x) >= Len(pre) /\ Lower(SubSeq(x, 1, Len(pre))) = pre
ExtArg(x) == SubSeq(x, 5, Len(x))
IsExtForm(x) ==
    /\ HasPrefix(x, <<"e","x","t",":">>)
    /\ AllAlnum(ExtArg(x)) \/ IsDotExt(ExtArg(x))
IsTypeForm(x) == HasPrefix(x, <<"t","y","p","e",":">>)
ExtOf(x) ==
    IF ExtArg(x)[1] = "." THEN Lower(ExtArg(x)) ELSE <<".">> \o Lower(ExtArg(x))
InTerms(x) == \E i \in 1..Len(argv_terms) : argv_terms[i] = x
\* n is the normalized text of a term written without quotes
FromUnquoted(n) ==
    \E j \in 1..Len(argv_terms) :
        ~ IsQuotedTerm(argv_terms[j]) /\ _norm(argv_terms[j], case_sensitive) = n

\* C13: each item ext:<ext>, quoted or not, in any letter case, <ext>
\* alphanumeric with or without a leading dot, puts the lowercase dot-prefixed
\* <ext> in and_extensions and nothing in tokens, exact_filenames or
\* exact_stems; every element of and_extensions is lowercase and dot-prefixed.
C13_ExtItemsBecomeExtensions ==
    parsed =>
        /\ \A i \in 1..Len(argv_terms) :
              LET x == ItemText(argv_terms[i])
              IN  IsExtForm(x)
                    => /\ ExtOf(x) \in query.and_extensions
                       /\ ~ InList(_norm(x, case_sensitive), query.tokens)
                       /\ ~ InList(_norm(x, case_sensitive), query.exact_filenames)
                       /\ ~ InList(_norm(x, case_sensitive), query.exact_stems)
        /\ \A e \in query.and_extensions : e = Lower(e) /\ e # <<>> /\ e[1] = "."

\* C14: each quoted item that is neither ext: nor type: goes to exactly one of
\* exact_filenames and exact_stems and never to tokens (where its text is only
\* if an unquoted term put it there): with a path separator
\* its final segment is an exact filename; otherwise with a "." at a position
\* other than the first it is an exact filename; otherwise it is an exact stem.
C14_QuotedItemsBecomeExacts ==
    parsed =>
        \A i \in 1..Len(argv_terms) :
           LET x == ItemText(argv_terms[i])
               n == _norm(x, case_sensitive)
               seg == _norm(AfterLast(AfterLast(x, "/"), "\\"), case_sensitive)
           IN  (IsQuotedTerm(argv_terms[i]) /\ ~ IsExtForm(x) /\ ~ IsTypeForm(x))
                 => /\ InList(n, query.tokens) => FromUnquoted(n)
                    /\ IF InList("/", x) \/ InList("\\", x)
                       THEN /\ InList(seg, query.exact_filenames)
                            /\ ~ InList(seg, query.exact_stems)
                       ELSE IF \E j \in 2..Len(x) : x[j] = "."
                       THEN /\ InList(n, query.exact_filenames)
                            /\ ~ InList(n, query.exact_stems)
                       ELSE /\ InList(n, query.exact_stems)
                            /\ ~ InList(n, query.exact_filenames)

\* C15: a quoted item that is a dot followed by an extension is a fuzzy token:
\* it is in tokens, and in none of and_extensions, exact_filenames, exact_stems.
C15_QuotedDotExtIsToken ==
    parsed =>
        \A i \in 1..Len(argv_terms) :
           LET x == ItemText(argv_terms[i])
               n == _norm(x, case_sensitive)
           IN  (IsQuotedTerm(argv_terms[i]) /\ IsDotExt(x))
                 => /\ InList(n, query.tokens)
                    /\ (Lower(x) \in query.and_extensions
                          => InTerms(t_ext_dot) \/ InTerms(t_q_ext_dot)
                             \/ InTerms(t_type))
                    /\ ~ InList(n, query.exact_filenames)
                    /\ ~ InList(n, query.exact_stems)

-----------------------------------------------------------------------------
(* One iter_files traversal on its own *)

\* the arguments of the model's traversals
RootLists == {<<1>>, <<9, 1>>, <<3, 1>>, <<2, 3>>}
\* --max-depth is any int (cli.py, line 50)
MaxDepths == {NoDepth, 0 - 1, 0, 1}
ExcludeSets == {{}, {"skip"}, {"sub"}}
DeniedSets == {{}, {3}, {5}}

InitWalk ==
    /\ roots \in RootLists
    /\ follow_symlinks \in BOOLEAN
    /\ max_depth \in MaxDepths
    /\ exclude_dirs \in ExcludeSets
    /\ denied \in DeniedSets
    /\ w_pc = "iter" /\ w_root = 0 /\ w_stack = <<>>
    /\ w_cur = [path |-> <<>>, depth |-> 0] /\ w_entries = {} /\ w_out = <<>>
    /\ w_lists = [d \in 1..Len(Nodes) |-> 0]
    /\ query = SearchQuery
    /\ m_path = 1 /\ m_done = TRUE
    /\ m_ret = [match |-> FALSE, opened |-> FALSE, raised |-> FALSE]
    /\ scan_content = FALSE /\ content_only = FALSE /\ ext_match_or = FALSE
    /\ max_content_size_mb = 10
    /\ tree = {} /\ endless = FALSE /\ limit = 1 /\ idle_timeout_sec = 0
    /\ stream_callback = FALSE
    /\ IdleRun
    /\ NoParse

NextWalk ==
    \/ IterRoot
    \/ WalkPop
    \/ WalkEntry

SpecWalk == InitWalk /\ [][NextWalk]_vars

\* the consumer of the generator keeps asking for the next path
SpecWalkLive == InitWalk /\ [][NextWalk]_vars /\ WF_vars(NextWalk)

\* the paths iter_files has yielded for the k-th root
YieldedFor(k) == {w_out[i].path : i \in {j \in 1..Len(w_out) : w_out[j].root = k}}
NoPathTwice ==
    \A i, j \in 1..Len(w_out) : i # j => w_out[i] # w_out[j]

\* the chain of directories from the top of the tree down to node n
RECURSIVE ChainTo(_)
ChainTo(n) ==
    IF Nodes[n].parent = 0 THEN <<n>> ELSE Append(ChainTo(Nodes[n].parent), n)

\* the path from root r down to node n, << >> when n is not below r
PathFrom(r, n) ==
    LET c == ChainTo(n)
    IN  IF n # r /\ \E i \in 1..Len(c) : c[i] = r
        THEN SubSeq(c, CHOOSE i \in 1..Len(c) : c[i] = r, Len(c))
        ELSE <<>>

\* the regular files below root r with no directory strictly between r and the
\* file named in exclude_dirs
FilesNotExcluded(r) ==
    {n \in 1..Len(Nodes) :
        LET path == PathFrom(r, n)
        IN  /\ Nodes[n].kind = "file"
            /\ path # <<>>
            /\ \A i \in 2..(Len(path) - 1) : Nodes[path[i]].name \notin exclude_dirs}

\* the depth of the directory holding the file at the end of a path, the
\* root's depth being 0
ContainingDepth(path) == Len(path) - 2

\* those whose containing directory has a depth of at most max_depth
FilesInBounds(r) ==
    {PathFrom(r, f) : f \in
        {n \in FilesNotExcluded(r) :
            max_depth = NoDepth \/ ContainingDepth(PathFrom(r, n)) <= max_depth}}

\* those whose containing directory is the root or has a depth of at most
\* max_depth: line 88 bounds the directories pushed, never the root
FilesInReach(r) ==
    {PathFrom(r, f) : f \in
        {n \in FilesNotExcluded(r) :
            \/ max_depth = NoDepth
            \/ ContainingDepth(PathFrom(r, n)) = 0
            \/ ContainingDepth(PathFrom(r, n)) <= max_depth}}

\* C17 as stated: with follow_symlinks disabled (and every directory
\* listable), what iter_files yields for a root is never outside the regular
\* files whose containing directory has a depth of at most max_depth and that
\* lie outside excluded directories, no path is yielded twice for a root, and
\* at the end every such file has been yielded.
C17_YieldsFilesInBounds ==
    (w_pc # "idle" /\ ~ follow_symlinks /\ denied = {})
        => /\ \A k \in 1..Len(roots) : YieldedFor(k) \subseteq FilesInBounds(roots[k])
           /\ NoPathTwice
           /\ w_pc = "end"
                 => \A k \in 1..Len(roots) : YieldedFor(k) = FilesInBounds(roots[k])

\* C17 amended: the same, the files directly in the root being yielded
\* whatever max_depth is.
C17_YieldsFilesInReach ==
    (w_pc # "idle" /\ ~ follow_symlinks /\ denied = {})
        => /\ \A k \in 1..Len(roots) : YieldedFor(k) \subseteq FilesInReach(roots[k])
           /\ NoPathTwice
           /\ w_pc = "end"
                 => \A k \in 1..Len(roots) : YieldedFor(k) = FilesInReach(roots[k])

\* the roots "sub" and "top" with max_depth 1: "skip" is descended into from
\* "sub" and not from "top"
C17_Witness ==
    /\ w_pc = "end" /\ ~ follow_symlinks /\ denied = {}
    /\ roots = <<3, 1>> /\ max_depth = 1 /\ exclude_dirs = {}
    /\ YieldedFor(1) = {<<3, 4>>, <<3, 5, 6>>}
    /\ YieldedFor(2) = {<<1, 2>>, <<1, 3, 4>>}
    /\ Len(w_out) = 4

\* what a recursive descent from the directory at `path` yields, a directory
\* that cannot be listed yielding nothing
RECURSIVE FilesBelow(_, _)
FilesBelow(path, depth) ==
    LET d == Resolved(Last(path))
    IN  IF Nodes[d].kind # "dir" \/ d \in denied THEN {}
        ELSE {Append(path, e) : e \in
                 {c \in Children(d) :
                     /\ ~ EntryRaises(path, c)
                     /\ ~ IsDir(c, follow_symlinks)
                     /\ IsFile(c, follow_symlinks)
                          \/ (follow_symlinks /\ IsSymlink(c))}}
             \cup UNION {FilesBelow(Append(path, e), depth + 1) : e \in
                 {c \in Children(d) :
                     /\ ~ EntryRaises(path, c)
                     /\ IsDir(c, follow_symlinks)
                     /\ Nodes[c].name \notin exclude_dirs
                     /\ max_depth = NoDepth \/ depth + 1 <= max_depth}}

DirLinks == {n \in 1..Len(Nodes) :
               Nodes[n].kind = "symlink" /\ Nodes[Nodes[n].target].kind = "dir"}

RECURSIVE Power(_, _)
Power(b, n) == IF n = 0 THEN 1 ELSE b * Power(b, n - 1)

RECURSIVE LinkSequences(_)
\* how many sequences of at most n directory links there are: a path from a
\* root to a directory is fixed by the links it goes through
LinkSequences(n) ==
    IF n = 0 THEN 1 ELSE Power(Cardinality(DirLinks), n) + LinkSequences(n - 1)

\* C24: iter_files ends, and it lists no directory more than a bounded number
\* of times: at most once per root with follow_symlinks disabled, and with it
\* enabled (the link "up" pointing to its own ancestor "top") at most once per
\* root and sequence of directory links the system resolves.
C24_TraversalTerminates ==
    /\ [](\A d \in 1..Len(Nodes) :
             w_lists[d] <= Len(roots) * (IF follow_symlinks
                                         THEN LinkSequences(MaxSymlinks) ELSE 1))
    /\ <>(w_pc = "end")

\* links followed, no depth bound: "top" was listed as the root and again
\* through sub/up, below which no further link resolves, and the traversal ended
C24_Witness ==
    /\ w_pc = "end" /\ follow_symlinks /\ max_depth = NoDepth
    /\ roots = <<1>> /\ exclude_dirs = {} /\ denied = {}
    /\ w_lists[1] = 2 /\ w_lists[3] = 2
    /\ \E i \in 1..Len(w_out) : w_out[i].path = <<1, 3, 10, 3, 4>>

====
